---------------------------- MODULE Spec2Model ----------------------------
(***************************************************************************)
(* Model of src/src/textgrid_parser.py: the encoding detection             *)
(* (detect_encoding), the TextGrid parser (parse_textgrid) and the phrase  *)
(* locator (find_phrase_timestamps, find_all_phrases); and of their        *)
(* callers: extract_audio_segment, the batch loops, process_csv_to_anki    *)
(* and AnkiConnector.update_note_audio.                                    *)
(*                                                                         *)
(* Python strings are sequences of one-character strings.  Times are kept  *)
(* in tenths of a second, so that float("1.5") is the integer 15.          *)
(* Python's None is the string "None"; a raised exception is a record of   *)
(* kind "raise".                                                           *)
(***************************************************************************)
EXTENDS Integers, Sequences, FiniteSets, TLC

VARIABLES
    content,    \* parse_textgrid: the decoded text of the file (line 61), as tokens
    parseRet,   \* parse_textgrid: its outcome (return value or exception)
    words,      \* the word list the caller holds and passes to the locator
    op,         \* name of the last locator function called
    phrase,     \* find_phrase_timestamps: its phrase argument
    phrases,    \* find_all_phrases: its phrases argument
    ret,        \* outcome of the last locator call
    prev,       \* the first lookup of a session: its arguments and its outcome
    fileBytes,  \* parse_textgrid: the bytes of the file at filepath, as chunks
    detected,   \* detect_encoding: its outcome
    readRet,    \* parse_textgrid: the outcome of reading the file (lines 60-61)
    clip,       \* extract_audio_segment: its arguments and the slice it takes
    batch,      \* a batch caller: its loop over the items
    anki,       \* process_csv_to_anki: its loop over the CSV rows, and the deck
    note        \* update_note_audio: the note in the Anki store, and the calls made

encVars == <<fileBytes, detected, readRet>>
callerVars == <<clip, batch, anki, note>>

vars == <<content, parseRet, words, op, phrase, phrases, ret, prev, encVars, callerVars>>

None == "None"

\* values of the variables of the functions that have not been called
NoPrev == [set |-> FALSE]
NoDetect == [kind |-> "pending"]
NoRead == [kind |-> "pending"]
NoClip == [status |-> "idle"]
NoBatch == [status |-> "idle"]
NoAnki == [status |-> "idle"]
NoNote == [status |-> "idle"]

EncodingIdle == fileBytes = <<>> /\ detected = NoDetect /\ readRet = NoRead
CallersIdle == clip = NoClip /\ batch = NoBatch /\ anki = NoAnki /\ note = NoNote

-----------------------------------------------------------------------------
(* Bounds of the model *)

MaxIntervals == 2     \* intervals in the word tier of a generated file
MaxWords == 3         \* words in a word list handed to the locator
MaxPhraseLen == 3     \* characters in a phrase
MaxBatch == 2         \* phrases in one find_all_phrases call

-----------------------------------------------------------------------------
(* Python string primitives *)

Whitespace == {" "}

LowerChar(c) ==
    CASE c = "A" -> "a"
      [] c = "B" -> "b"
      [] OTHER -> c

\* str.lower()
PyLower(s) == [i \in 1..Len(s) |-> LowerChar(s[i])]

RECURSIVE LStrip(_)
LStrip(s) ==
    IF s = <<>> THEN s
    ELSE IF Head(s) \in Whitespace THEN LStrip(Tail(s))
    ELSE s

RECURSIVE RStrip(_)
RStrip(s) ==
    IF s = <<>> THEN s
    ELSE IF s[Len(s)] \in Whitespace THEN RStrip(SubSeq(s, 1, Len(s) - 1))
    ELSE s

\* str.strip()
PyStrip(s) == RStrip(LStrip(s))

\* str.split() with no separator: the maximal runs of non-whitespace, in order
RECURSIVE SplitFrom(_, _, _)
SplitFrom(s, cur, acc) ==
    IF s = <<>>
    THEN IF cur = <<>> THEN acc ELSE Append(acc, cur)
    ELSE IF Head(s) \in Whitespace
         THEN SplitFrom(Tail(s), <<>>, IF cur = <<>> THEN acc ELSE Append(acc, cur))
         ELSE SplitFrom(Tail(s), Append(cur, Head(s)), acc)

PySplit(s) == SplitFrom(s, <<>>, <<>>)

Digits == {"0", "1", "2", "3", "4", "5", "6", "7", "8", "9"}

DigitVal(c) ==
    CASE c = "0" -> 0 [] c = "1" -> 1 [] c = "2" -> 2 [] c = "3" -> 3
      [] c = "4" -> 4 [] c = "5" -> 5 [] c = "6" -> 6 [] c = "7" -> 7
      [] c = "8" -> 8 [] c = "9" -> 9

RECURSIVE IntOf(_)
IntOf(s) == IF s = <<>> THEN 0 ELSE IntOf(SubSeq(s, 1, Len(s) - 1)) * 10 + DigitVal(s[Len(s)])

\* the character class [\d.]+ of interval_pattern
MatchesNumPattern(s) == s # <<>> /\ \A i \in 1..Len(s) : s[i] \in Digits \cup {"."}

DotPositions(s) == {i \in 1..Len(s) : s[i] = "."}

\* float(s) succeeds; exact for the unsigned decimal notation a TextGrid uses
PyFloatOK(s) ==
    /\ \A i \in 1..Len(s) : s[i] \in Digits \cup {"."}
    /\ Cardinality(DotPositions(s)) <= 1
    /\ \E i \in 1..Len(s) : s[i] \in Digits

\* float(s), in tenths of a second (inputs carry at most one decimal)
PyFloat(s) ==
    LET dot == IF DotPositions(s) = {} THEN Len(s) + 1
               ELSE CHOOSE i \in DotPositions(s) : TRUE
        frac == SubSeq(s, dot + 1, Len(s))
    IN IntOf(SubSeq(s, 1, dot - 1)) * 10 + (IF frac = <<>> THEN 0 ELSE DigitVal(frac[1]))

-----------------------------------------------------------------------------
(* The decoded TextGrid text, as the tokens the two regular expressions of  *)
(* parse_textgrid can see: tier markers "item [n]:", tier names             *)
(* name = "...", and interval blocks xmin = .. / xmax = .. / text = "..".   *)

ItemTok(n) == [t |-> "item", n |-> n, s |-> "", xmin |-> <<>>, xmax |-> <<>>, text |-> <<>>]
NameTok(s) == [t |-> "name", n |-> 0, s |-> s, xmin |-> <<>>, xmax |-> <<>>, text |-> <<>>]
IntervalTok(a, b, l) == [t |-> "interval", n |-> 0, s |-> "", xmin |-> a, xmax |-> b, text |-> l]

\* (xmin, xmax) of a generated interval: two well-formed pairs, one with xmax before
\* xmin, then pairs with a field that matches [\d.]+ but is no float, and one whose
\* field does not match
FieldPairs ==
    { << <<"0">>, <<"1">> >>,
      << <<"1", ".", "5">>, <<"2">> >>,
      << <<"2">>, <<"1">> >>,
      << <<".">>, <<"1">> >>,
      << <<"0">>, <<".">> >>,
      << <<"x">>, <<"1">> >> }

Labels == { <<"a">>, <<" ", "b", " ">>, <<>>, <<" ">>, <<"s", "p", "n">> }

IntervalBlocks == {IntervalTok(f[1], f[2], l) : f \in FieldPairs, l \in Labels}

WordTiers == UNION {[1..k -> IntervalBlocks] : k \in 0..MaxIntervals}

PhoneIntervals == << IntervalTok(<<"0">>, <<"1">>, <<"p">>) >>

\* the tiers of a file, by name, in file order
Layouts ==
    { << "words" >>, << "words", "phones" >>, << "phones", "words" >>,
      << "phones" >>, << "phones", "phones" >>,
      << "words", "phones", "phones" >>, << "phones", "words", "phones" >> }

RECURSIVE TiersFrom(_, _, _)
TiersFrom(layout, k, wordIntervals) ==
    IF k > Len(layout) THEN <<>>
    ELSE << ItemTok(k), NameTok(layout[k]) >>
         \o (IF layout[k] = "words" THEN wordIntervals ELSE PhoneIntervals)
         \o TiersFrom(layout, k + 1, wordIntervals)

FileOf(layout, wordIntervals) == TiersFrom(layout, 1, wordIntervals)

Files == {FileOf(l, w) : l \in Layouts, w \in WordTiers}

-----------------------------------------------------------------------------
(* parse_textgrid *)

\* WordTierSpan with the tier name left out of the pattern: any tier's name starts it
WordTierSpanAnyName(c) ==
    LET starts == {s \in 1..Len(c) :
                      /\ c[s].t = "name"
                      /\ \E e \in (s + 1)..Len(c) : c[e].t = "item" /\ c[e].n = 2}
    IN IF starts = {} THEN <<0, 0>>
       ELSE LET s == CHOOSE x \in starts : \A y \in starts : x <= y
                e == CHOOSE x \in (s + 1)..Len(c) :
                        /\ c[x].t = "item" /\ c[x].n = 2
                        /\ \A y \in (s + 1)..(x - 1) : ~(c[y].t = "item" /\ c[y].n = 2)
            IN <<s, e>>

\* re.search(r'name = "words".*?(?=item \[2\])', content, re.DOTALL):
\* the leftmost word-tier name that some "item [2]" follows, up to the first such
\* "item [2]"; <<0, 0>> when there is no match
WordTierSpan(c) ==
    LET starts == {s \in 1..Len(c) :
                      /\ c[s].t = "name" /\ c[s].s = "words"
                      /\ \E e \in (s + 1)..Len(c) : c[e].t = "item" /\ c[e].n = 2}
    IN IF starts = {} THEN <<0, 0>>
       ELSE LET s == CHOOSE x \in starts : \A y \in starts : x <= y
                e == CHOOSE x \in (s + 1)..Len(c) :
                        /\ c[x].t = "item" /\ c[x].n = 2
                        /\ \A y \in (s + 1)..(x - 1) : ~(c[y].t = "item" /\ c[y].n = 2)
            IN <<s, e>>

IsIntervalMatch(tok) ==
    tok.t = "interval" /\ MatchesNumPattern(tok.xmin) /\ MatchesNumPattern(tok.xmax)

\* interval_pattern.findall(word_tier)
FindIntervals(tier) == SelectSeq(tier, IsIntervalMatch)

\* BuildWords with each word put at the front of the list
RECURSIVE BuildWordsPrepend(_, _, _)
BuildWordsPrepend(intervals, k, acc) ==
    IF k > Len(intervals) THEN [kind |-> "ok", words |-> acc]
    ELSE LET text == PyStrip(intervals[k].text)
         IN IF text = <<>> \/ text = <<"s", "p", "n">>
            THEN BuildWordsPrepend(intervals, k + 1, acc)
            ELSE IF ~PyFloatOK(intervals[k].xmin) \/ ~PyFloatOK(intervals[k].xmax)
                 THEN [kind |-> "raise", words |-> <<>>]
                 ELSE BuildWordsPrepend(intervals, k + 1,
                        << [word |-> text,
                            start |-> PyFloat(intervals[k].xmin),
                            end |-> PyFloat(intervals[k].xmax)] >> \o acc)

\* the loop of lines 85-96
RECURSIVE BuildWords(_, _, _)
BuildWords(intervals, k, acc) ==
    IF k > Len(intervals) THEN [kind |-> "ok", words |-> acc]
    ELSE LET text == PyStrip(intervals[k].text)
         IN IF text = <<>> \/ text = <<"s", "p", "n">>
            THEN BuildWords(intervals, k + 1, acc)
            ELSE IF ~PyFloatOK(intervals[k].xmin) \/ ~PyFloatOK(intervals[k].xmax)
                 THEN [kind |-> "raise", words |-> <<>>]
                 ELSE BuildWords(intervals, k + 1,
                        Append(acc, [word |-> text,
                                     start |-> PyFloat(intervals[k].xmin),
                                     end |-> PyFloat(intervals[k].xmax)]))

\* parse_textgrid on the decoded text c: kind "ok" (a list is returned) or "raise"
\* (ValueError from float); tier is word_tier (line 74) as a span of c, and warned
\* tells that "Could not find word tier" was printed
ParseTextgrid(c) ==
    LET span == WordTierSpan(c)
    IN IF span = <<0, 0>>
       THEN [kind |-> "ok", words |-> <<>>, tier |-> span, warned |-> TRUE]
       ELSE LET built == BuildWords(FindIntervals(SubSeq(c, span[1], span[2] - 1)), 1, <<>>)
            IN [kind |-> built.kind, words |-> built.words, tier |-> span, warned |-> FALSE]

Pending == [kind |-> "pending", words |-> <<>>, tier |-> <<0, 0>>, warned |-> FALSE]
NoCall == [kind |-> "nocall"]

ParserInit ==
    /\ content \in Files
    /\ parseRet = Pending
    /\ words = <<>>
    /\ op = "none"
    /\ phrase = <<>>
    /\ phrases = <<>>
    /\ ret = NoCall
    /\ prev = NoPrev
    /\ EncodingIdle
    /\ CallersIdle

CallParseTextgrid ==
    /\ parseRet.kind = "pending"
    /\ parseRet' = ParseTextgrid(content)
    /\ words' = IF parseRet'.kind = "ok" THEN parseRet'.words ELSE words
    /\ UNCHANGED <<content, op, phrase, phrases, ret, prev, encVars, callerVars>>

ParserNext == CallParseTextgrid

ParserSpec == ParserInit /\ [][ParserNext]_vars

-----------------------------------------------------------------------------
(* find_phrase_timestamps and find_all_phrases *)

\* seq[i] with a Python index i (0-based, negative counts from the end) is defined
PyIndexOK(seq, i) == -Len(seq) <= i /\ i < Len(seq)

\* seq[i] with a Python index i
PyIndex(seq, i) == IF i >= 0 THEN seq[i + 1] ELSE seq[Len(seq) + i + 1]

\* seq[i:j] for 0 <= i, clipped to the end of seq as Python slices are
PySlice(seq, i, j) ==
    LET hi == IF j < Len(seq) THEN j ELSE Len(seq)
    IN SubSeq(seq, i + 1, hi)

\* [w['word'].lower() for w in words[i:i+n]]
Window(ws, i, n) ==
    LET sl == PySlice(ws, i, i + n)
    IN [k \in 1..Len(sl) |-> PyLower(sl[k].word)]

NotFound(scanned) == [kind |-> "none", scanned |-> scanned]
Raised(scanned) == [kind |-> "raise", scanned |-> scanned]

\* the return statement of lines 121-125, taken in iteration i
MatchAt(ws, p, i, n) ==
    IF PyIndexOK(ws, i) /\ PyIndexOK(ws, i + n - 1)
    THEN [kind |-> "match", phrase |-> p, start |-> PyIndex(ws, i).start,
          end |-> PyIndex(ws, i + n - 1).end, scanned |-> i + 1]
    ELSE Raised(i + 1)

\* ScanRange without the phrase length: range(len(words))
ScanRangeAllWords(ws, n) == Len(ws)

\* range(len(words) - n + 1)
ScanRange(ws, n) == Len(ws) - n + 1

\* ScanFrom that keeps scanning after a match and returns the last matching window
ScanFromKeepLast(ws, p, pw, i) ==
    LET hits == {j \in i..(ScanRange(ws, Len(pw)) - 1) : Window(ws, j, Len(pw)) = pw}
    IN IF hits = {} THEN NotFound(IF ScanRange(ws, Len(pw)) > i THEN ScanRange(ws, Len(pw)) ELSE i)
       ELSE MatchAt(ws, p, CHOOSE j \in hits : \A h \in hits : h <= j, Len(pw))

\* the loop of lines 117-127 from iteration i on; scanned counts the windows built
RECURSIVE ScanFrom(_, _, _, _)
ScanFrom(ws, p, pw, i) ==
    IF i >= ScanRange(ws, Len(pw)) THEN NotFound(i)
    ELSE IF Window(ws, i, Len(pw)) = pw THEN MatchAt(ws, p, i, Len(pw))
    ELSE ScanFrom(ws, p, pw, i + 1)

\* phrase.lower().strip().split()
PhraseWords(p) == PySplit(PyStrip(PyLower(p)))

\* find_phrase_timestamps(words, phrase)
FindPhraseTimestamps(ws, p) == ScanFrom(ws, p, PhraseWords(p), 0)

\* one result entry of find_all_phrases for lookup outcome m (a match dict is truthy)
ResultEntry(p, m) ==
    IF m.kind = "match"
    THEN [phrase |-> p, start |-> m.start, end |-> m.end, found |-> TRUE]
    ELSE [phrase |-> p, start |-> None, end |-> None, found |-> FALSE]

\* the loop of lines 143-163 from phrase k on; an exception of the lookup escapes
RECURSIVE AllFrom(_, _, _, _)
AllFrom(ws, ps, k, acc) ==
    IF k > Len(ps) THEN [kind |-> "list", results |-> acc]
    ELSE LET m == FindPhraseTimestamps(ws, ps[k])
         IN IF m.kind = "raise" THEN [kind |-> "raise", results |-> <<>>]
            ELSE AllFrom(ws, ps, k + 1, Append(acc, ResultEntry(ps[k], m)))

\* find_all_phrases(words, phrases)
FindAllPhrases(ws, ps) == AllFrom(ws, ps, 1, <<>>)

\* Inputs of the locator
WordTexts == { <<"a">>, <<"A">>, <<"b">>, <<"a", "b">> }

\* word lists as an aligner lays them out: word k spans second k-1 to second k
WordLists ==
    UNION {{[k \in 1..len |-> [word |-> f[k], start |-> (k - 1) * 10, end |-> k * 10]] :
               f \in [1..len -> WordTexts]} : len \in 0..MaxWords}

PhraseChars == {"a", "A", "b", " "}

PhraseInputs == UNION {[1..k -> PhraseChars] : k \in 0..MaxPhraseLen}

BatchPhrases == { <<>>, <<"a">>, <<"A", " ", "b">>, <<"b", "b">> }

BatchInputs == UNION {[1..k -> BatchPhrases] : k \in 0..MaxBatch}

LocatorInit ==
    /\ content = <<>>
    /\ parseRet = Pending
    /\ words \in WordLists
    /\ op = "none"
    /\ phrase = <<>>
    /\ phrases = <<>>
    /\ ret = NoCall
    /\ prev = NoPrev
    /\ EncodingIdle
    /\ CallersIdle

\* a caller queries the locator: one call at a time, each on the held word list
CallFindPhraseTimestamps ==
    \E p \in PhraseInputs :
        /\ op = "none"
        /\ op' = "find_phrase_timestamps"
        /\ phrase' = p
        /\ phrases' = <<>>
        /\ ret' = FindPhraseTimestamps(words, p)
        /\ UNCHANGED <<content, parseRet, words, prev, encVars, callerVars>>

CallFindAllPhrases ==
    \E ps \in BatchInputs :
        /\ op = "none"
        /\ op' = "find_all_phrases"
        /\ phrase' = <<>>
        /\ phrases' = ps
        /\ ret' = FindAllPhrases(words, ps)
        /\ UNCHANGED <<content, parseRet, words, prev, encVars, callerVars>>

\* the caller has used the outcome and is ready for its next query
NextQuery ==
    /\ op # "none"
    /\ op' = "none"
    /\ phrase' = <<>>
    /\ phrases' = <<>>
    /\ ret' = NoCall
    /\ UNCHANGED <<content, parseRet, words, prev, encVars, callerVars>>

LocatorNext == CallFindPhraseTimestamps \/ CallFindAllPhrases \/ NextQuery

LocatorSpec == LocatorInit /\ [][LocatorNext]_vars

-----------------------------------------------------------------------------
(* A session of lookups on one word list *)

\* WordsAfterLookup for a scan that consumes the list it scans (words.pop(0))
WordsAfterLookupPop(ws, p) == IF ws = <<>> THEN ws ELSE Tail(ws)

\* the caller's list after find_phrase_timestamps(words, phrase): the function only
\* reads it (len, slices and item reads in lines 117-124)
WordsAfterLookup(ws, p) == ws

\* the caller's list after find_all_phrases(words, phrases)
RECURSIVE WordsAfterBatch(_, _, _)
WordsAfterBatch(ws, ps, k) ==
    IF k > Len(ps) THEN ws
    ELSE IF FindPhraseTimestamps(ws, ps[k]).kind = "raise" THEN WordsAfterLookup(ws, ps[k])
    ELSE WordsAfterBatch(WordsAfterLookup(ws, ps[k]), ps, k + 1)

SessionInit == LocatorInit

SessionLookup ==
    \E p \in BatchPhrases :
        /\ op = "none"
        /\ op' = "find_phrase_timestamps"
        /\ phrase' = p
        /\ phrases' = <<>>
        /\ ret' = FindPhraseTimestamps(words, p)
        /\ words' = WordsAfterLookup(words, p)
        /\ prev' = IF ~prev.set
                   THEN [set |-> TRUE, phrase |-> p, words |-> words, ret |-> ret',
                         between |-> FALSE]
                   ELSE IF p # prev.phrase THEN [prev EXCEPT !.between = TRUE]
                   ELSE prev
        /\ UNCHANGED <<content, parseRet, encVars, callerVars>>

SessionBatch ==
    \E ps \in BatchInputs :
        /\ op = "none"
        /\ op' = "find_all_phrases"
        /\ phrase' = <<>>
        /\ phrases' = ps
        /\ ret' = FindAllPhrases(words, ps)
        /\ words' = WordsAfterBatch(words, ps, 1)
        /\ prev' = IF prev.set THEN [prev EXCEPT !.between = TRUE] ELSE prev
        /\ UNCHANGED <<content, parseRet, encVars, callerVars>>

SessionNext == SessionLookup \/ SessionBatch \/ NextQuery

SessionSpec == SessionInit /\ [][SessionNext]_vars

-----------------------------------------------------------------------------
(* detect_encoding, and the reading of the file by parse_textgrid.  The file *)
(* is a sequence of chunks of bytes: a piece of TextGrid text written in     *)
(* ASCII, in UTF-16 little-endian or in UTF-16 big-endian, a byte-order mark *)
(* (FF FE or FE FF), the byte C0 (no UTF-8, a letter in latin-1 and cp1252)  *)
(* or the byte 81 (no UTF-8, undefined in cp1252).                           *)

MaxChunks == 3        \* chunks in a generated file

HeaderTok == [t |-> "header", n |-> 0, s |-> "", xmin |-> <<>>, xmax |-> <<>>, text |-> <<>>]
JunkTok == [t |-> "junk", n |-> 0, s |-> "", xmin |-> <<>>, xmax |-> <<>>, text |-> <<>>]

\* the pieces of text: 'File type = "ooTextFile"', 'name = "words"', and one
\* interval block followed by "item [2]:"
Payloads == {"header", "name", "tier"}

PayloadTokens(p) ==
    CASE p = "header" -> << HeaderTok >>
      [] p = "name" -> << NameTok("words") >>
      [] p = "tier" -> << IntervalTok(<<"0">>, <<"1">>, <<"a">>), ItemTok(2) >>

\* characters of a piece of text
PayloadLen(p) ==
    CASE p = "header" -> 24
      [] p = "name" -> 14
      [] p = "tier" -> 42

Chunk(k, p) == [k |-> k, p |-> p]

Chunks ==
    {Chunk(k, p) : k \in {"ascii", "le", "be"}, p \in Payloads}
        \cup {Chunk(k, "") : k \in {"bomLE", "bomBE", "hi", "undef"}}

ByteLen(c) ==
    CASE c.k = "ascii" -> PayloadLen(c.p)
      [] c.k \in {"le", "be"} -> 2 * PayloadLen(c.p)
      [] c.k \in {"bomLE", "bomBE"} -> 2
      [] c.k \in {"hi", "undef"} -> 1

\* bytes of the first k chunks of f
RECURSIVE BytesBefore(_, _)
BytesBefore(f, k) == IF k <= 1 THEN 0 ELSE BytesBefore(f, k - 1) + ByteLen(f[k - 1])

TotalLen(f) == BytesBefore(f, Len(f) + 1)

EncFiles == UNION {[1..k -> Chunks] : k \in 0..MaxChunks}

\* Encodings with cp1252 tried before latin-1
EncodingsCp1252First == << "utf-16", "utf-8", "cp1252", "latin-1" >>

\* line 21
Encodings == << "utf-16", "utf-8", "latin-1", "cp1252" >>

\* the text an 8-bit codec (utf-8, latin-1, cp1252) makes of the chunks from k on:
\* only text written in ASCII reads as itself
RECURSIVE Text8(_, _)
Text8(f, k) ==
    IF k > Len(f) THEN <<>>
    ELSE (IF f[k].k = "ascii" THEN PayloadTokens(f[k].p) ELSE << JunkTok >>)
         \o Text8(f, k + 1)

\* the text the utf-16 codec makes of the chunks from k on, in byte order `order`:
\* only text written in that order at an even offset reads as itself
RECURSIVE Text16(_, _, _)
Text16(f, k, order) ==
    IF k > Len(f) THEN <<>>
    ELSE (IF f[k].k = order /\ BytesBefore(f, k) % 2 = 0
          THEN PayloadTokens(f[k].p) ELSE << JunkTok >>)
         \o Text16(f, k + 1, order)

Failed == [ok |-> FALSE, text |-> <<>>]
Decoded(t) == [ok |-> TRUE, text |-> t]

\* open(filepath, 'r', encoding=enc).read(): the text, or a UnicodeError.  The
\* utf-16 reader of a file wants an even number of bytes and a leading byte-order
\* mark ("UTF-16 stream does not start with BOM"); utf-8 rejects the bytes FF, FE,
\* C0 and a lone 81; latin-1 maps every byte; cp1252 has no character for 81.
Decode(f, enc) ==
    CASE enc = "utf-16" ->
            IF TotalLen(f) % 2 = 1 THEN Failed
            ELSE IF f = <<>> THEN Decoded(<<>>)
            ELSE IF f[1].k = "bomLE" THEN Decoded(Text16(f, 2, "le"))
            ELSE IF f[1].k = "bomBE" THEN Decoded(Text16(f, 2, "be"))
            ELSE Failed
      [] enc = "utf-8" ->
            IF \E i \in 1..Len(f) : f[i].k \in {"bomLE", "bomBE", "hi", "undef"}
            THEN Failed ELSE Decoded(Text8(f, 1))
      [] enc = "latin-1" -> Decoded(Text8(f, 1))
      [] enc = "cp1252" ->
            IF \E i \in 1..Len(f) : f[i].k = "undef"
            THEN Failed ELSE Decoded(Text8(f, 1))

\* HasMarkers with "or" for "and"
HasMarkersEither(text) ==
    \/ \E i \in 1..Len(text) : text[i].t = "header"
    \/ \E i \in 1..Len(text) : text[i].t = "name" /\ text[i].s = "words"

\* line 30
HasMarkers(text) ==
    /\ \E i \in 1..Len(text) : text[i].t = "header"
    /\ \E i \in 1..Len(text) : text[i].t = "name" /\ text[i].s = "words"

\* the loop of lines 23-35 from candidate k on, and the fallback of lines 37-39;
\* found tells which of the two messages was printed
RECURSIVE DetectFrom(_, _)
DetectFrom(f, k) ==
    IF k > Len(Encodings) THEN [kind |-> "ret", enc |-> "utf-8", found |-> FALSE]
    ELSE LET d == Decode(f, Encodings[k])
         IN IF d.ok /\ HasMarkers(d.text)
            THEN [kind |-> "ret", enc |-> Encodings[k], found |-> TRUE]
            ELSE DetectFrom(f, k + 1)

DetectEncoding(f) == DetectFrom(f, 1)

\* ReadFile with a second attempt under latin-1 when the first fails
ReadFileRetry(f, enc) ==
    LET d == Decode(f, enc)
    IN IF d.ok THEN [kind |-> "ok", text |-> d.text, opens |-> << enc >>]
       ELSE [kind |-> "ok", text |-> Decode(f, "latin-1").text,
             opens |-> << enc, "latin-1" >>]

\* lines 60-61: one open and one read; opens lists the encodings the file was
\* opened with, kind "raise" is the UnicodeDecodeError of read()
ReadFile(f, enc) ==
    LET d == Decode(f, enc)
    IN [kind |-> IF d.ok THEN "ok" ELSE "raise", text |-> d.text, opens |-> << enc >>]

ParseRaised == [kind |-> "raise", words |-> <<>>, tier |-> <<0, 0>>, warned |-> FALSE]

EncodingInit ==
    /\ fileBytes \in EncFiles
    /\ detected = NoDetect
    /\ readRet = NoRead
    /\ content = <<>>
    /\ parseRet = Pending
    /\ words = <<>>
    /\ op = "none"
    /\ phrase = <<>>
    /\ phrases = <<>>
    /\ ret = NoCall
    /\ prev = NoPrev
    /\ CallersIdle

CallDetectEncoding ==
    /\ detected.kind = "pending"
    /\ detected' = DetectEncoding(fileBytes)
    /\ UNCHANGED <<content, parseRet, words, op, phrase, phrases, ret, prev,
                   fileBytes, readRet, callerVars>>

\* parse_textgrid(filepath), from the bytes of the file
CallParseTextgridFile ==
    /\ readRet.kind = "pending"
    /\ detected' = DetectEncoding(fileBytes)
    /\ readRet' = ReadFile(fileBytes, detected'.enc)
    /\ content' = readRet'.text
    /\ parseRet' = IF readRet'.kind = "raise" THEN ParseRaised
                   ELSE ParseTextgrid(content')
    /\ words' = IF parseRet'.kind = "ok" THEN parseRet'.words ELSE words
    /\ UNCHANGED <<op, phrase, phrases, ret, prev, fileBytes, callerVars>>

EncodingNext == CallDetectEncoding \/ CallParseTextgridFile

EncodingSpec == EncodingInit /\ [][EncodingNext]_vars

-----------------------------------------------------------------------------
(* The pipeline of test_pipeline.py and audio_extractor.extract_phrase: a    *)
(* file is parsed, then phrases are looked up in the words it gave.          *)

PipelineFiles == {FileOf(<< "words", "phones" >>, w) : w \in WordTiers}

PipelineInit ==
    /\ content \in PipelineFiles
    /\ parseRet = Pending
    /\ words = <<>>
    /\ op = "none"
    /\ phrase = <<>>
    /\ phrases = <<>>
    /\ ret = NoCall
    /\ prev = NoPrev
    /\ EncodingIdle
    /\ CallersIdle

PipelineLookup ==
    \E p \in BatchPhrases :
        /\ parseRet.kind = "ok"
        /\ op = "none"
        /\ op' = "find_phrase_timestamps"
        /\ phrase' = p
        /\ phrases' = <<>>
        /\ ret' = FindPhraseTimestamps(words, p)
        /\ UNCHANGED <<content, parseRet, words, prev, encVars, callerVars>>

PipelineNext == CallParseTextgrid \/ PipelineLookup \/ NextQuery

PipelineSpec == PipelineInit /\ [][PipelineNext]_vars

-----------------------------------------------------------------------------
(* The batch callers: batch_convert_mp3_to_wav, batch_transcribe,            *)
(* transcribe_all_lessons, batch_clean_transcripts, batch_extract_phrases    *)
(* and process_csv_to_anki.  An item of a batch is the name of the step of   *)
(* its processing that raises an exception, "none" when no step does, or     *)
(* "exists" when transcribe_all_lessons finds its transcript already there.  *)

MaxItems == 2         \* items in a batch

Callers ==
    { "batch_convert_mp3_to_wav", "batch_transcribe", "transcribe_all_lessons",
      "batch_clean_transcripts", "batch_extract_phrases", "process_csv_to_anki" }

\* the steps of the loop body that can raise
Steps(caller) ==
    CASE caller = "batch_convert_mp3_to_wav" -> {"mp3_to_wav"}
      [] caller = "batch_transcribe" -> {"transcribe", "write"}
      [] caller = "transcribe_all_lessons" -> {"transcribe", "write"}
      [] caller = "batch_clean_transcripts" -> {"read", "clean_transcript", "write"}
      [] caller = "batch_extract_phrases" -> {"extract_phrase"}
      [] caller = "process_csv_to_anki" ->
            {"find_cards_by_front", "extract_phrase", "add_note", "update_note_audio"}

\* the step stands inside a try ... except Exception of the loop body
Caught(caller, step) ==
    CASE caller = "batch_extract_phrases" -> FALSE
      [] caller = "process_csv_to_anki" -> step \in {"add_note", "update_note_audio"}
      [] OTHER -> TRUE

\* the callers that return before their loop and summary when there are no items
ReturnsEarlyWhenEmpty(caller) ==
    caller \in {"batch_convert_mp3_to_wav", "batch_transcribe", "batch_clean_transcripts"}

ItemKinds(caller) ==
    {"none"} \cup Steps(caller)
        \cup (IF caller = "transcribe_all_lessons" THEN {"exists"} ELSE {})

BatchItems(caller) == UNION {[1..k -> ItemKinds(caller)] : k \in 0..MaxItems}

BatchInit ==
    /\ \E c \in Callers : \E its \in BatchItems(c) :
          batch = [status |-> "running", caller |-> c, items |-> its, pos |-> 1,
                   log |-> <<>>]
    /\ clip = NoClip
    /\ note = NoNote
    /\ anki = NoAnki
    /\ content = <<>>
    /\ parseRet = Pending
    /\ words = <<>>
    /\ op = "none"
    /\ phrase = <<>>
    /\ phrases = <<>>
    /\ ret = NoCall
    /\ prev = NoPrev
    /\ EncodingIdle

\* one pass of the loop body over the item at pos
BatchItem ==
    /\ batch.status = "running"
    /\ batch.pos <= Len(batch.items)
    /\ LET item == batch.items[batch.pos]
       IN batch' =
            IF item = "none"
            THEN [batch EXCEPT !.pos = @ + 1, !.log = Append(@, "ok")]
            ELSE IF item = "exists"
            THEN [batch EXCEPT !.pos = @ + 1, !.log = Append(@, "skipped")]
            ELSE IF Caught(batch.caller, item)
            THEN [batch EXCEPT !.pos = @ + 1, !.log = Append(@, "failed")]
            ELSE [batch EXCEPT !.status = "aborted"]
    /\ UNCHANGED <<content, parseRet, words, op, phrase, phrases, ret, prev, encVars,
                   clip, anki, note>>

\* the code after the loop
BatchSummary ==
    /\ batch.status = "running"
    /\ batch.pos > Len(batch.items)
    /\ batch' = [batch EXCEPT !.status =
                    IF batch.items = <<>> /\ ReturnsEarlyWhenEmpty(batch.caller)
                    THEN "empty" ELSE "summary"]
    /\ UNCHANGED <<content, parseRet, words, op, phrase, phrases, ret, prev, encVars,
                   clip, anki, note>>

BatchNext == BatchItem \/ BatchSummary

BatchSpec == BatchInit /\ [][BatchNext]_vars

-----------------------------------------------------------------------------
(* extract_audio_segment: the bounds of the slice it takes.  Times are in     *)
(* tenths of a second as everywhere, lengths and offsets in milliseconds.     *)

MaxTenths == 5        \* largest start_time and end_time, in tenths of a second

DefaultPaddingMs == 100

ClipTimes == 0..MaxTenths

Paddings == {0, DefaultPaddingMs}

\* len(audio), in milliseconds
AudioLengths == {0, 200, 1000}

PyMax(a, b) == IF a >= b THEN a ELSE b
PyMin(a, b) == IF a <= b THEN a ELSE b

\* int(t * 1000) for a time of t tenths of a second
MsOf(t) == t * 100

\* lines 28-37
ExtractAudioSegment(start_time, end_time, padding_ms, length) ==
    [status |-> "done", start_time |-> start_time, end_time |-> end_time,
     padding_ms |-> padding_ms, length |-> length,
     start_ms |-> PyMax(0, MsOf(start_time) - padding_ms),
     end_ms |-> PyMin(length, MsOf(end_time) + padding_ms)]

ExtractInit ==
    /\ clip = NoClip
    /\ note = NoNote
    /\ batch = NoBatch
    /\ anki = NoAnki
    /\ content = <<>>
    /\ parseRet = Pending
    /\ words = <<>>
    /\ op = "none"
    /\ phrase = <<>>
    /\ phrases = <<>>
    /\ ret = NoCall
    /\ prev = NoPrev
    /\ EncodingIdle

CallExtractAudioSegment ==
    \E s \in ClipTimes, e \in ClipTimes, pad \in Paddings, len \in AudioLengths :
        /\ clip.status = "idle"
        /\ clip' = ExtractAudioSegment(s, e, pad, len)
        /\ UNCHANGED <<content, parseRet, words, op, phrase, phrases, ret, prev,
                       encVars, batch, anki, note>>

ExtractNext == CallExtractAudioSegment

ExtractSpec == ExtractInit /\ [][ExtractNext]_vars

-----------------------------------------------------------------------------
(* process_csv_to_anki: the loop over the CSV rows.  The deck is the set of  *)
(* Front texts findCards finds; an added note is found by its Front text     *)
(* from then on.  A row comes with the step of its processing at which the   *)
(* Anki connection or the audio extraction raises, if it gets that far.      *)

MaxRows == 2          \* rows of the CSV file

\* str.replace(ch, '')
Remove(s, ch) ==
    LET Keep(c) == c # ch
    IN SelectSeq(s, Keep)

\* str.replace(ch, ' ')
Blank(s, ch) == [i \in 1..Len(s) |-> IF s[i] = ch THEN " " ELSE s[i]]

\* lines 181 and 190: french.lower().replace('!', '').replace('?', '').replace(',', '')
CallerNormalize(french) == Remove(Remove(Remove(PyLower(french), "!"), "?"), ",")

PunctuationChars == {"!", "?", ",", ".", "-", ";", ":"}

RECURSIVE JoinWords(_)
JoinWords(ws) ==
    IF ws = <<>> THEN <<>>
    ELSE IF Len(ws) = 1 THEN ws[1]
    ELSE ws[1] \o << " " >> \o JoinWords(Tail(ws))

\* clean_transcript on a text without digits: lower case, hyphens to spaces,
\* punctuation other than apostrophes removed, runs of whitespace collapsed
CleanTranscript(text) ==
    LET NotPunct(c) == c \notin PunctuationChars
    IN JoinWords(PySplit(SelectSeq(Blank(PyLower(text), "-"), NotPunct)))

Spoken(w, a, b) == [word |-> w, start |-> a, end |-> b]

Lesson(ws, source) == [words |-> ws, source |-> source]

\* textgrids, in the order of os.listdir, and whether <lesson>.wav exists
LessonConfigs ==
    { << Lesson(<< Spoken(<<"a">>, 0, 10), Spoken(<<"b">>, 10, 20) >>, TRUE),
         Lesson(<< Spoken(<<"b">>, 0, 10) >>, TRUE) >>,
      << Lesson(<< Spoken(<<"b">>, 0, 10) >>, FALSE),
         Lesson(<< Spoken(<<"a">>, 0, 10), Spoken(<<"b">>, 10, 20) >>, TRUE) >>,
      << Lesson(<<>>, TRUE) >> }

\* the Front column of a row
AnkiFronts ==
    { <<"A", " ", "b", "!">>, <<"b">>, <<"b", ".">>, <<"a", "-", "b">>, <<"!">>, <<" ">> }

\* the Back column of a row
AnkiBacks == { <<"x">>, <<>> }

RowFaults == {"none", "find_cards_by_front", "extract_phrase", "add_note", "update_note_audio"}

\* LessonScan without the break of line 199: every lesson is tried
RECURSIVE LessonScanNoBreak(_, _, _, _)
LessonScanNoBreak(lessons, k, p, fault) ==
    IF k > Len(lessons) THEN [kind |-> "done", lesson |-> 0, clips |-> 0]
    ELSE LET m == FindPhraseTimestamps(lessons[k].words, p)
         IN IF m.kind = "raise" THEN [kind |-> "raise", lesson |-> k, clips |-> 0]
            ELSE IF m.kind = "match" /\ lessons[k].source
                 THEN IF fault = "extract_phrase"
                      THEN [kind |-> "raise", lesson |-> k, clips |-> 0]
                      ELSE LET rest == LessonScanNoBreak(lessons, k + 1, p, fault)
                           IN IF rest.kind = "raise" THEN rest
                              ELSE [kind |-> "done",
                                    lesson |-> IF rest.lesson # 0 THEN rest.lesson ELSE k,
                                    clips |-> rest.clips + 1]
                 ELSE LessonScanNoBreak(lessons, k + 1, p, fault)

\* the loop of lines 180-199 from lesson k on: the lesson whose clip is taken
\* (0 when none) and the number of times audio_added was incremented, or the
\* exception that leaves the loop
RECURSIVE LessonScan(_, _, _, _)
LessonScan(lessons, k, p, fault) ==
    IF k > Len(lessons) THEN [kind |-> "done", lesson |-> 0, clips |-> 0]
    ELSE LET m == FindPhraseTimestamps(lessons[k].words, p)
         IN IF m.kind = "raise" THEN [kind |-> "raise", lesson |-> k, clips |-> 0]
            ELSE IF m.kind = "match" /\ lessons[k].source
                 THEN IF fault = "extract_phrase"
                      THEN [kind |-> "raise", lesson |-> k, clips |-> 0]
                      ELSE [kind |-> "done", lesson |-> k, clips |-> 1]
                 ELSE LessonScan(lessons, k + 1, p, fault)

NoRow == [kind |-> "none"]

ZeroStats == [created |-> 0, updated |-> 0, skipped |-> 0, audio_added |-> 0,
              audio_not_found |-> 0]

Bump(stats, key) == [stats EXCEPT ![key] = @ + 1]

\* one pass of the loop body (lines 163-232) over a row
RowOutcome(a, front, back, fault) ==
    LET french == PyStrip(front)
        english == PyStrip(back)
        p == CallerNormalize(french)
        existing == french \in a.deck
        scan == LessonScan(a.lessons, 1, p, fault)
        hasAudio == scan.lesson # 0
        before == [stats |-> a.stats, n |-> a.n, nonEmpty |-> a.nonEmpty]
        row == [kind |-> "row", front |-> front, back |-> back, before |-> before,
                french |-> french, empty |-> FALSE,
                existing |-> existing, phrase |-> p, audio |-> hasAudio,
                addCalled |-> FALSE, added |-> FALSE, updated |-> FALSE,
                fault |-> fault]
        heard == IF hasAudio THEN [a.stats EXCEPT !.audio_added = @ + scan.clips]
                 ELSE Bump(a.stats, "audio_not_found")
    IN IF french = <<>> \/ english = <<>>
       THEN [a EXCEPT !.n = @ + 1, !.stats = Bump(@, "skipped"),
                      !.last = [kind |-> "row", front |-> front, back |-> back,
                                before |-> before, french |-> french, empty |-> TRUE, existing |-> FALSE, phrase |-> <<>>,
                                audio |-> FALSE, addCalled |-> FALSE,
                                added |-> FALSE, updated |-> FALSE, fault |-> fault]]
       ELSE IF fault = "find_cards_by_front"
       THEN [a EXCEPT !.status = "aborted",
                      !.last = [row EXCEPT !.existing = FALSE, !.phrase = <<>>,
                                           !.audio = FALSE]]
       ELSE IF scan.kind = "raise"
       THEN [a EXCEPT !.status = "aborted", !.last = [row EXCEPT !.audio = FALSE]]
       ELSE IF ~existing
       THEN IF fault = "add_note"
            THEN [a EXCEPT !.n = @ + 1, !.nonEmpty = @ + 1,
                           !.stats = Bump(heard, "skipped"),
                           !.last = [row EXCEPT !.addCalled = TRUE]]
            ELSE [a EXCEPT !.n = @ + 1, !.nonEmpty = @ + 1,
                           !.stats = Bump(heard, "created"),
                           !.deck = @ \cup {french},
                           !.notes = Append(@, french),
                           !.last = [row EXCEPT !.addCalled = TRUE, !.added = TRUE]]
       ELSE IF hasAudio
       THEN IF fault = "update_note_audio"
            THEN [a EXCEPT !.n = @ + 1, !.nonEmpty = @ + 1,
                           !.stats = Bump(heard, "skipped"), !.last = row]
            ELSE [a EXCEPT !.n = @ + 1, !.nonEmpty = @ + 1,
                           !.stats = Bump(heard, "updated"),
                           !.last = [row EXCEPT !.updated = TRUE]]
       ELSE [a EXCEPT !.n = @ + 1, !.nonEmpty = @ + 1,
                      !.stats = Bump(heard, "skipped"), !.last = row]

AnkiInit ==
    /\ \E ls \in LessonConfigs : \E d \in {{}, {<<"b">>}} :
          anki = [status |-> "running", lessons |-> ls, deck |-> d, notes |-> <<>>,
                  n |-> 0, nonEmpty |-> 0, stats |-> ZeroStats, last |-> NoRow]
    /\ clip = NoClip
    /\ note = NoNote
    /\ batch = NoBatch
    /\ content = <<>>
    /\ parseRet = Pending
    /\ words = <<>>
    /\ op = "none"
    /\ phrase = <<>>
    /\ phrases = <<>>
    /\ ret = NoCall
    /\ prev = NoPrev
    /\ EncodingIdle

ProcessRow ==
    \E front \in AnkiFronts, back \in AnkiBacks, fault \in RowFaults :
        /\ anki.status = "running"
        /\ anki.n < MaxRows
        /\ anki' = RowOutcome(anki, front, back, fault)
        /\ UNCHANGED <<content, parseRet, words, op, phrase, phrases, ret, prev,
                       encVars, clip, batch, note>>

\* the summary of lines 234-243, once the rows are through
AnkiSummary ==
    /\ anki.status = "running"
    /\ anki' = [anki EXCEPT !.status = "summary"]
    /\ UNCHANGED <<content, parseRet, words, op, phrase, phrases, ret, prev,
                   encVars, clip, batch, note>>

AnkiNext == ProcessRow \/ AnkiSummary

AnkiSpec == AnkiInit /\ [][AnkiNext]_vars

-----------------------------------------------------------------------------
(* AnkiConnector.update_note_audio, called again and again with one note and *)
(* one audio file.  The Front field is a sequence of pieces: "tag" is        *)
(* audio_tag, [sound:<basename>] of that file; "other" the sound tag of      *)
(* another file; "br" is <br>; "text" any other content.                     *)

MaxCalls == 3         \* calls of update_note_audio on the note

FrontPieces == {"text", "tag", "other"}

\* Front of the note before the first call
OriginalFronts == UNION {[1..k -> FrontPieces] : k \in 0..2}

\* AlreadyThere with the test of line 94 dropped
AlreadyThereNever(front) == FALSE

\* line 94: audio_tag in front_field
AlreadyThere(front) == \E i \in 1..Len(front) : front[i] = "tag"

\* line 95
UpdatedFront(front) == << "tag", "br" >> \o front

\* the AnkiConnect actions of a call, any of which may answer with an error
NoteFaults == {"none", "notesInfo", "storeMediaFile", "updateNoteFields"}

\* lines 76-104, with the action that fails, if the call gets to it
UpdateNoteAudio(nt, fault) ==
    LET hadTag == AlreadyThere(nt.front)
        call == [hadTag |-> hadTag, issued |-> FALSE, raised |-> FALSE]
    IN IF fault = "notesInfo"
       THEN [nt EXCEPT !.raised = @ + 1, !.last = [call EXCEPT !.raised = TRUE]]
       ELSE IF fault = "storeMediaFile"
       THEN [nt EXCEPT !.raised = @ + 1, !.last = [call EXCEPT !.raised = TRUE]]
       ELSE IF hadTag
       THEN [nt EXCEPT !.returned = @ + 1, !.stored = @ + 1, !.last = call]
       ELSE IF fault = "updateNoteFields"
       THEN [nt EXCEPT !.raised = @ + 1, !.stored = @ + 1,
                       !.last = [call EXCEPT !.issued = TRUE, !.raised = TRUE]]
       ELSE [nt EXCEPT !.returned = @ + 1, !.stored = @ + 1, !.updates = @ + 1,
                       !.front = UpdatedFront(nt.front),
                       !.last = [call EXCEPT !.issued = TRUE]]

NoteInit ==
    /\ \E o \in OriginalFronts :
          note = [status |-> "ready", original |-> o, front |-> o, returned |-> 0,
                  raised |-> 0, stored |-> 0, updates |-> 0,
                  last |-> [hadTag |-> FALSE, issued |-> FALSE, raised |-> FALSE]]
    /\ clip = NoClip
    /\ batch = NoBatch
    /\ anki = NoAnki
    /\ content = <<>>
    /\ parseRet = Pending
    /\ words = <<>>
    /\ op = "none"
    /\ phrase = <<>>
    /\ phrases = <<>>
    /\ ret = NoCall
    /\ prev = NoPrev
    /\ EncodingIdle

CallUpdateNoteAudio ==
    \E fault \in NoteFaults :
        /\ note.status = "ready"
        /\ note.returned + note.raised < MaxCalls
        /\ note' = UpdateNoteAudio(note, fault)
        /\ UNCHANGED <<content, parseRet, words, op, phrase, phrases, ret, prev,
                       encVars, clip, batch, anki>>

NoteNext == CallUpdateNoteAudio

NoteSpec == NoteInit /\ [][NoteNext]_vars

-----------------------------------------------------------------------------
(* What the claims speak of, stated without the code's own steps *)

\* the whitespace-separated tokens of s: its maximal runs of non-whitespace
TokenRuns(s) ==
    {r \in (1..Len(s)) \X (1..Len(s)) :
        /\ r[1] <= r[2]
        /\ \A j \in r[1]..r[2] : s[j] \notin Whitespace
        /\ (r[1] = 1 \/ s[r[1] - 1] \in Whitespace)
        /\ (r[2] = Len(s) \/ s[r[2] + 1] \in Whitespace)}

NumTokens(s) == Cardinality(TokenRuns(s))

\* the k-th token of s, lowercased
LowerToken(s, k) ==
    LET r == CHOOSE x \in TokenRuns(s) :
                 Cardinality({y \in TokenRuns(s) : y[1] < x[1]}) = k - 1
    IN [j \in 1..(r[2] - r[1] + 1) |-> LowerChar(s[r[1] + j - 1])]

\* the n words from (0-based) position i on equal the n tokens of p, case aside
WindowMatches(ws, p, i) ==
    /\ i + NumTokens(p) <= Len(ws)
    /\ \A k \in 1..NumTokens(p) :
          [j \in 1..Len(ws[i + k].word) |-> LowerChar(ws[i + k].word[j])] = LowerToken(p, k)

IsLookup == op = "find_phrase_timestamps"
IsBatch == op = "find_all_phrases"
Parsed == parseRet.kind # "pending"

HasWordMarker(c) == \E i \in 1..Len(c) : c[i].t = "name" /\ c[i].s = "words"

\* the word tier of c: from its name marker to the marker of the next tier, or to
\* the end of the file when no tier follows
TrueWordTierSpan(c) ==
    LET s == CHOOSE x \in 1..Len(c) :
                 /\ c[x].t = "name" /\ c[x].s = "words"
                 /\ \A y \in 1..(x - 1) : ~(c[y].t = "name" /\ c[y].s = "words")
        nexts == {x \in (s + 1)..Len(c) : c[x].t = "item"}
    IN <<s, IF nexts = {} THEN Len(c) + 1
            ELSE CHOOSE x \in nexts : \A y \in nexts : x <= y>>

IsInterval(tok) == tok.t = "interval"

\* the interval blocks of the word tier of c, in file order
TrueWordIntervals(c) ==
    SelectSeq(SubSeq(c, TrueWordTierSpan(c)[1], TrueWordTierSpan(c)[2] - 1), IsInterval)

\* s without its leading and trailing whitespace
Trimmed(s) ==
    LET solid == {i \in 1..Len(s) : s[i] \notin Whitespace}
    IN IF solid = {} THEN <<>>
       ELSE SubSeq(s, CHOOSE i \in solid : \A j \in solid : i <= j,
                      CHOOSE i \in solid : \A j \in solid : j <= i)

IsSpokenWord(tok) == Trimmed(tok.text) # <<>> /\ Trimmed(tok.text) # <<"s", "p", "n">>

WellFormed(tok) == PyFloatOK(tok.xmin) /\ PyFloatOK(tok.xmax)

\* the words a word tier stands for: its labeled intervals, in file order
ExpectedWords(c) ==
    LET kept == SelectSeq(TrueWordIntervals(c), IsSpokenWord)
    IN [k \in 1..Len(kept) |->
          [word |-> Trimmed(kept[k].text), start |-> PyFloat(kept[k].xmin),
           end |-> PyFloat(kept[k].xmax)]]

-----------------------------------------------------------------------------
(* Claims *)

\* C1: for a phrase of n >= 1 tokens, a returned match is the earliest window of n
\* words equal to the tokens, and spans from that window's first word's start to
\* its last word's end.
C1_EarliestOccurrence ==
    (IsLookup /\ NumTokens(phrase) >= 1 /\ ret.kind = "match") =>
        \E i \in 0..(Len(words) - 1) :
            /\ WindowMatches(words, phrase, i)
            /\ \A j \in 0..(i - 1) : ~WindowMatches(words, phrase, j)
            /\ ret.start = words[i + 1].start
            /\ ret.end = words[i + NumTokens(phrase)].end

\* a match was returned for a phrase that also occurs later in the word list
C1_Witness ==
    /\ IsLookup /\ NumTokens(phrase) >= 1 /\ ret.kind = "match"
    /\ \E j \in 0..(Len(words) - 1) :
          WindowMatches(words, phrase, j) /\ words[j + 1].start > ret.start

\* C2: a match is returned if and only if some contiguous window of exactly n words
\* equals, case aside, the n whitespace-separated tokens of the phrase, in order.
C2_MatchIffWindow ==
    IsLookup =>
        (ret.kind = "match" <=>
            \E i \in 0..(Len(words) - NumTokens(phrase)) : WindowMatches(words, phrase, i))

\* C3: a phrase with zero tokens is NotFound for find_phrase_timestamps, and is
\* reported with found = False by find_all_phrases, whatever the word list.
C3_EmptyPhraseNotFound ==
    /\ (IsLookup /\ NumTokens(phrase) = 0) => ret.kind = "none"
    /\ IsBatch =>
          /\ ret.kind = "list"
          /\ \A k \in 1..Len(phrases) :
                NumTokens(phrases[k]) = 0 => ~ret.results[k].found

\* C4: find_phrase_timestamps returns a match or NotFound and never raises, and so
\* find_all_phrases never raises either.
C4_NeverRaises ==
    /\ IsLookup => ret.kind \in {"match", "none"}
    /\ IsBatch => ret.kind = "list"

\* C5: a phrase with more tokens than there are words is NotFound, and no window is
\* examined.
C5_TooLongNotFound ==
    (IsLookup /\ NumTokens(phrase) > Len(words)) =>
        (ret.kind = "none" /\ ret.scanned = 0)

\* a lookup of a phrase longer than a non-empty word list has returned
C5_Witness ==
    /\ IsLookup /\ Len(words) >= 1 /\ NumTokens(phrase) > Len(words)
    /\ ret.kind = "none"

\* C6: the word tier parse_textgrid works on is the text from the word tier's name
\* marker to the next tier's marker, wherever the word tier stands in the file and
\* also when no tier follows it.
C6_TierIsolation ==
    (Parsed /\ HasWordMarker(content)) => parseRet.tier = TrueWordTierSpan(content)

\* C7: for a word tier of well-formed intervals the result is exactly its intervals
\* whose trimmed label is neither empty nor 'spn', with trimmed label and own
\* xmin/xmax, in file order; with no such interval it is the empty list, no error.
C7_ExactlyLabeledIntervals ==
    (/\ Parsed /\ HasWordMarker(content)
     /\ \A k \in 1..Len(TrueWordIntervals(content)) : WellFormed(TrueWordIntervals(content)[k]))
        => (parseRet.kind = "ok" /\ parseRet.words = ExpectedWords(content))

\* C8: if an interval of the word tier has an xmin or xmax that is no float, the
\* parse raises and returns nothing, whatever that interval's label.  Stated for
\* the files whose word tier the parser does isolate.
C8_MalformedNumberRaises ==
    (/\ Parsed /\ HasWordMarker(content)
     /\ parseRet.tier = TrueWordTierSpan(content)
     /\ \E k \in 1..Len(TrueWordIntervals(content)) : ~WellFormed(TrueWordIntervals(content)[k]))
        => parseRet.kind = "raise"

\* C9: with no word-tier marker in the decoded file, parse_textgrid returns the
\* empty list after a warning and raises nothing.
C9_MissingTierIsEmpty ==
    (Parsed /\ ~HasWordMarker(content)) =>
        (parseRet.kind = "ok" /\ parseRet.words = <<>> /\ parseRet.warned)

\* a file with tiers and intervals but no word tier has been parsed
C9_Witness ==
    /\ Parsed /\ ~HasWordMarker(content)
    /\ \E i \in 1..Len(content) : content[i].t = "interval"
    /\ \E i \in 1..Len(content) : content[i].t = "item" /\ content[i].n = 2
    /\ parseRet.words = <<>>

\* C10: find_all_phrases returns one entry per phrase, in input order, each with the
\* outcome of that phrase's own lookup: found and its span, or not found and None.
C10_OneEntryPerPhrase ==
    IsBatch =>
        /\ ret.kind = "list"
        /\ Len(ret.results) = Len(phrases)
        /\ \A k \in 1..Len(phrases) :
              LET m == FindPhraseTimestamps(words, phrases[k])
                  e == ret.results[k]
              IN /\ e.phrase = phrases[k]
                 /\ IF m.kind = "match"
                    THEN e.found /\ e.start = m.start /\ e.end = m.end
                    ELSE ~e.found /\ e.start = None /\ e.end = None

BothTokens(text) ==
    /\ \E i \in 1..Len(text) : text[i] = HeaderTok
    /\ \E i \in 1..Len(text) : text[i] = NameTok("words")

\* candidate k decodes the file and its text holds both tokens
Acceptable(f, k) ==
    Decode(f, Encodings[k]).ok /\ BothTokens(Decode(f, Encodings[k]).text)

\* f is a UTF-16 file (it starts with a byte-order mark and is made of whole
\* 16-bit units) that holds both tokens in its byte order
IsUtf16WithTokens(f) ==
    /\ f # <<>> /\ f[1].k \in {"bomLE", "bomBE"}
    /\ TotalLen(f) % 2 = 0
    /\ LET order == IF f[1].k = "bomLE" THEN "le" ELSE "be"
       IN \A p \in {"header", "name"} :
              \E i \in 2..Len(f) : f[i] = Chunk(order, p) /\ BytesBefore(f, i) % 2 = 0

EncIndex(e) == CHOOSE k \in 1..Len(Encodings) : Encodings[k] = e

NoCandidate(f) == \A k \in 1..Len(Encodings) : ~Acceptable(f, k)

\* C12: detect_encoding returns the first of utf-16, utf-8, latin-1, cp1252 under
\* which the file decodes and holds both tokens, skipping every candidate that
\* fails to decode or lacks a token; a UTF-16 file holding both tokens is
\* detected as utf-16.
C12_FirstAcceptableEncoding ==
    detected.kind = "ret" =>
        /\ \A k \in 1..Len(Encodings) :
              (Acceptable(fileBytes, k) /\ \A j \in 1..(k - 1) : ~Acceptable(fileBytes, j))
                  => detected.found /\ detected.enc = Encodings[k]
        /\ detected.found => Acceptable(fileBytes, EncIndex(detected.enc))
        /\ IsUtf16WithTokens(fileBytes) => detected.found /\ detected.enc = "utf-16"

C12_Witness ==
    /\ detected.kind = "ret" /\ detected.enc = "utf-16" /\ detected.found
    /\ IsUtf16WithTokens(fileBytes)
    /\ fileBytes[1].k = "bomBE"

\* C13: when no candidate both decodes the file and holds the two tokens,
\* detect_encoding returns the fallback utf-8 without raising; parse_textgrid
\* opens the file once, with that fallback, and a decode error of that read
\* reaches the caller.
C13_FallbackReadOnce ==
    NoCandidate(fileBytes) =>
        /\ detected.kind = "ret" => detected.enc = "utf-8" /\ ~detected.found
        /\ readRet.kind # "pending" =>
              /\ readRet.opens = << "utf-8" >>
              /\ IF Decode(fileBytes, "utf-8").ok
                 THEN readRet.kind = "ok" /\ content = Decode(fileBytes, "utf-8").text
                      /\ parseRet.kind # "raise"
                 ELSE readRet.kind = "raise" /\ parseRet.kind = "raise"

C13_Witness ==
    /\ NoCandidate(fileBytes)
    /\ detected.kind = "ret" /\ ~detected.found
    /\ readRet.kind = "raise" /\ parseRet.kind = "raise"
    /\ \E i \in 1..Len(fileBytes) : fileBytes[i] = Chunk("ascii", "header")

\* C14: every Word parse_textgrid returns has start <= end.
C14_WordStartBeforeEnd ==
    (Parsed /\ parseRet.kind = "ok") =>
        \A k \in 1..Len(parseRet.words) : parseRet.words[k].start <= parseRet.words[k].end

\* the intervals of the tier the parser isolated that become Words, in file order
RetainedIntervals(c, span) ==
    LET Kept(tok) == /\ IsInterval(tok)
                     /\ MatchesNumPattern(tok.xmin) /\ MatchesNumPattern(tok.xmax)
                     /\ IsSpokenWord(tok)
    IN SelectSeq(SubSeq(c, span[1], span[2] - 1), Kept)

Ascending(starts) == \A k \in 1..(Len(starts) - 1) : starts[k] <= starts[k + 1]

\* C15 as stated: the Words parse_textgrid returns are in ascending order of start.
C15_AscendingStart ==
    (Parsed /\ parseRet.kind = "ok") =>
        Ascending([k \in 1..Len(parseRet.words) |-> parseRet.words[k].start])

\* C15: the Words parse_textgrid returns are in the file order of the intervals
\* they were built from, and so are in ascending order of start whenever those
\* intervals are in ascending order of xmin in the file.
C15_FileOrder ==
    (Parsed /\ parseRet.kind = "ok") =>
        LET ivs == RetainedIntervals(content, parseRet.tier)
        IN /\ Len(parseRet.words) = Len(ivs)
           /\ \A k \in 1..Len(ivs) :
                 /\ parseRet.words[k].word = Trimmed(ivs[k].text)
                 /\ parseRet.words[k].start = PyFloat(ivs[k].xmin)
                 /\ parseRet.words[k].end = PyFloat(ivs[k].xmax)
           /\ Ascending([k \in 1..Len(ivs) |-> PyFloat(ivs[k].xmin)])
                 => Ascending([k \in 1..Len(parseRet.words) |-> parseRet.words[k].start])

C15_Witness ==
    /\ Parsed /\ parseRet.kind = "ok"
    /\ Len(parseRet.words) = 2
    /\ parseRet.words[1].word # parseRet.words[2].word
    /\ parseRet.words[1].start < parseRet.words[2].start

\* C16: a match find_phrase_timestamps returns over the words parse_textgrid
\* produced has start <= end.
C16_MatchStartBeforeEnd ==
    (parseRet.kind = "ok" /\ IsLookup /\ NumTokens(phrase) >= 1 /\ ret.kind = "match")
        => ret.start <= ret.end

\* C17: in every batch caller a failure on one item is reported for that item and
\* the remaining items are still processed: no batch stops before its summary, and
\* at the summary every item has its report, "failed" for the items that failed.
C17_BatchContinuesAfterFailure ==
    /\ batch.status # "idle" => batch.status # "aborted"
    /\ batch.status = "summary" =>
          /\ Len(batch.log) = Len(batch.items)
          /\ \A k \in 1..Len(batch.items) :
                batch.log[k] = "failed" <=> batch.items[k] \in Steps(batch.caller)

\* C19: for 0 <= start_time <= end_time and padding_ms >= 0 the slice bounds of
\* extract_audio_segment satisfy 0 <= start_ms <= end_ms <= len(audio).
C19_SliceWithinBounds ==
    (clip.status = "done" /\ 0 <= clip.start_time /\ clip.start_time <= clip.end_time
        /\ clip.padding_ms >= 0)
        => /\ 0 <= clip.start_ms
           /\ clip.start_ms <= clip.end_ms
           /\ clip.end_ms <= clip.length

\* the last row got as far as the lookup of its phrase in the lessons
LookedUp == anki.status # "idle" /\ anki.last.kind = "row" /\ ~anki.last.empty
            /\ anki.last.fault # "find_cards_by_front"

\* C18: the phrase process_csv_to_anki passes to find_phrase_timestamps and
\* extract_phrase holds no punctuation character, being normalized the way
\* clean_transcript normalizes the transcript.
C18_CallerStripsPunctuation ==
    LookedUp =>
        /\ \A i \in 1..Len(anki.last.phrase) : anki.last.phrase[i] \notin PunctuationChars
        /\ PySplit(anki.last.phrase) = PySplit(CleanTranscript(anki.last.french))

\* C20: for a non-empty row add_note is called to create a note exactly when
\* find_cards_by_front reported no card with that Front; when a card exists no
\* note is added and the existing note is modified only if a clip was found; no
\* Front text has more than one created note.
C20_CreateIffNoCard ==
    /\ LookedUp =>
          /\ anki.last.addCalled <=> ~anki.last.existing
          /\ anki.last.added => anki.last.addCalled
          /\ anki.last.updated => anki.last.existing /\ anki.last.audio
    /\ anki.status # "idle" =>
          \A i, j \in 1..Len(anki.notes) : anki.notes[i] = anki.notes[j] => i = j

\* occurrences of audio_tag in a Front field
TagCount(front) == Cardinality({i \in 1..Len(front) : front[i] = "tag"})

HasTag(front) == TagCount(front) >= 1

\* C21 as stated: after one or more calls of update_note_audio with the same note
\* and audio file the Front holds the tag exactly once, prepended to the
\* original content, and updateNoteFields is issued only when the tag is absent.
C21_TagOnceAndPrepended ==
    (note.status = "ready" /\ note.returned >= 1) =>
        /\ TagCount(note.front) = 1
        /\ note.front = << "tag", "br" >> \o note.original
        /\ note.last.issued => ~note.last.hadTag

\* C21: after one or more calls of update_note_audio with the same note and audio
\* file, a Front that did not hold the tag holds it exactly once, as the tag and
\* a line break put before the original content, whatever the number of calls; a
\* Front that already held the tag is left as it was; updateNoteFields is issued
\* only when the tag is absent, hence at most once.
C21_IdempotentUpdate ==
    (note.status = "ready" /\ note.returned >= 1) =>
        /\ IF HasTag(note.original)
           THEN note.front = note.original /\ note.updates = 0
           ELSE /\ note.front = << "tag", "br" >> \o note.original
                /\ TagCount(note.front) = 1
                /\ note.updates = 1
        /\ note.last.issued => ~note.last.hadTag

C21_Witness ==
    /\ note.status = "ready" /\ note.returned >= 2
    /\ ~HasTag(note.original) /\ note.original # <<>>
    /\ note.last.hadTag /\ ~note.last.issued
    /\ TagCount(note.front) = 1

\* the row is one the loop skips as empty: no Front or no Back but whitespace
RowIsEmpty(row) == Trimmed(row.front) = <<>> \/ Trimmed(row.back) = <<>>

\* the counters among keys that the last row raised, each by exactly one
RaisedByOne(keys) ==
    {key \in keys : anki.stats[key] = anki.last.before.stats[key] + 1}

Untouched(keys) ==
    {key \in keys : anki.stats[key] = anki.last.before.stats[key]}

CardCounters == {"created", "updated", "skipped"}
AudioCounters == {"audio_added", "audio_not_found"}

\* the last row was processed to its end
RowProcessed == anki.status \in {"running", "summary"} /\ anki.last.kind = "row"

\* C22: after each processed row created + updated + skipped is the number of
\* rows processed and audio_added + audio_not_found the number of non-empty rows
\* processed; a row raises exactly one of created, updated, skipped, and a
\* non-empty row exactly one of audio_added, audio_not_found, also when its
\* phrase matches in several lessons.
C22_CounterInvariant ==
    /\ anki.status \in {"running", "summary"} =>
          /\ anki.stats.created + anki.stats.updated + anki.stats.skipped = anki.n
          /\ anki.stats.audio_added + anki.stats.audio_not_found = anki.nonEmpty
    /\ RowProcessed =>
          /\ anki.n = anki.last.before.n + 1
          /\ anki.nonEmpty = anki.last.before.nonEmpty
                                + (IF RowIsEmpty(anki.last) THEN 0 ELSE 1)
          /\ Cardinality(RaisedByOne(CardCounters)) = 1
          /\ Cardinality(Untouched(CardCounters)) = 2
          /\ IF RowIsEmpty(anki.last)
             THEN Untouched(AudioCounters) = AudioCounters
             ELSE /\ Cardinality(RaisedByOne(AudioCounters)) = 1
                  /\ Cardinality(Untouched(AudioCounters)) = 1

\* lessons in which the phrase of the last row matches and the audio exists
MatchingLessons ==
    {k \in 1..Len(anki.lessons) :
        /\ anki.lessons[k].source
        /\ FindPhraseTimestamps(anki.lessons[k].words, anki.last.phrase).kind = "match"}

C22_Witness ==
    /\ RowProcessed /\ anki.n = 2 /\ ~anki.last.empty
    /\ Cardinality(MatchingLessons) = 2
    /\ anki.stats.audio_added = anki.last.before.stats.audio_added + 1
    /\ anki.last.before.stats.skipped = 1

\* the file decodes under encoding e and its text holds both tokens
AcceptedUnder(f, e) == Decode(f, e).ok /\ BothTokens(Decode(f, e).text)

\* C23: detect_encoding never returns cp1252, a file acceptable under cp1252
\* being acceptable under latin-1 already: the result is utf-16, utf-8 or
\* latin-1, and it is the utf-8 fallback exactly when the latin-1 text of the
\* file lacks a token and neither the utf-16 nor the utf-8 attempt was accepted.
C23_NeverCp1252 ==
    /\ AcceptedUnder(fileBytes, "cp1252") => AcceptedUnder(fileBytes, "latin-1")
    /\ detected.kind = "ret" =>
          /\ detected.enc \in {"utf-16", "utf-8", "latin-1"}
          /\ ~detected.found =>  detected.enc = "utf-8"
          /\ ~detected.found <=>
                /\ ~BothTokens(Decode(fileBytes, "latin-1").text)
                /\ ~AcceptedUnder(fileBytes, "utf-16")
                /\ ~AcceptedUnder(fileBytes, "utf-8")

C23_Witness ==
    /\ detected.kind = "ret" /\ detected.found /\ detected.enc = "latin-1"
    /\ AcceptedUnder(fileBytes, "cp1252")
    /\ ~Decode(fileBytes, "utf-8").ok

=============================================================================
